---------------------------- MODULE Spec2Model ----------------------------
(***************************************************************************)
(* The Greeter of src/src/greeter.c (greeterCreate, greeterGreet,          *)
(* greeterDestroy) together with the Logger it calls, as the repository    *)
(* provides it: the single-instance LoggerMock of src/mock (Single<T> and  *)
(* loggerWriteLog).                                                        *)
(*                                                                         *)
(* Texts are sequences of C chars (bytes), without the terminating NUL.    *)
(* A pointer is an object id or NULL (0); a char pointer is a text or      *)
(* NullText.  The callers' handle variables (greeter_t *g of the tests)    *)
(* are the references Refs; a reference only ever holds what greeterCreate *)
(* returned into it, and greeterDestroy is the only operation that retires *)
(* a handle (single owner, no copies, no forged handles).                  *)
(*                                                                         *)
(* malloc and strdup are taken to succeed and to hand out fresh storage;   *)
(* assert is taken to be enabled, as the death test expects.  An exception *)
(* thrown by the Logger's accessor leaves greeterGreet through its C       *)
(* frame: the caller catches it and goes on, or the process ends.          *)
(***************************************************************************)
EXTENDS Integers, Sequences, FiniteSets, TLC

\* ------------------------------------------------------------- bounds
MaxObjs == 2
MaxCalls == 5

\* ------------------------------------------------- program constants
BufSize == 100

\* The null pointer of greeter_t * and greeter_t **.
NULL == 0

\* The null char pointer: a value that is no text (texts hold single chars).
NullText == <<"NUL">>

World == <<"W", "o", "r", "l", "d">>

\* ------------------------------------------------------------- inputs
Rep(c, n) == [i \in 1..n |-> c]

\* The callers' handle variables and the LoggerMock objects they declare.
Refs == {1, 2}
LoggerIds == {1, 2}

\* The Greeters malloc can hand out.
Objs == 1..MaxObjs

\* Greeting texts a caller passes to greeterCreate: the empty text and one
\* that takes half of the buffer.
LongGreeting == Rep("g", (BufSize - 4) \div 2)
Greetings == {<<>>, LongGreeting}

\* Names a caller passes to greeterGreet.  With the long greeting the first
\* long name fills the buffer exactly (BufSize - 1 chars), the second
\* exceeds it by one char.
FillingName == Rep("n", BufSize - 1 - (Len(LongGreeting) + 3))
Names == {<<>>, FillingName, FillingName \o <<"n">>}

\* Statuses the mock's LoggerWriteLog returns: a failure, as the tests
\* install it, and the constructor's default (logger_mock.cpp).
Statuses == {-1, 42}

\* What malloc'ed, never written storage holds: indeterminate, and never read
\* (greeterGreet writes the buffer before it passes or returns it).
Indeterminate == <<"?">>

VARIABLES
    pc,            \* "running", or how the process ended
    refs,          \* refs[r]: the callers' handle variables
    heap,          \* heap[o]: "unalloc", "live" or "freed"
    greeting,      \* greeting[o]: self->greeting
    buffer,        \* buffer[o]: self->buffer
    released,      \* released[o]: free() calls on the greeting and on the Greeter
    instance,      \* Single<LoggerMock>::instance
    liveLoggers,   \* the LoggerMock objects constructed and not yet destroyed
    log,           \* the messages the Logger received, in order
    last,          \* the last call and its outcome
    given,         \* history: the text passed to the greeterCreate that made o
    rets,          \* history: the texts greeterGreet returned, in order
    lastOk,        \* history: what the last greeterGreet on o that returned, returned
    views,         \* history: the pointers the greeterGreet calls on o returned
    sawFail,       \* history: the Logger returned a failure status before
    loggerGone,    \* history: an installed Logger instance was destroyed before
    retired,       \* history: r's handle was live and greeterDestroy set it absent
    calls          \* history: the number of calls made

vars == <<pc, refs, heap, greeting, buffer, released, instance, liveLoggers,
          log, last, given, rets, lastOk, views, sawFail, loggerGone, retired, calls>>

\* A call: the operation, its reference or logger argument, the pointer it
\* worked on, its text argument, the text it returned (read through the
\* returned pointer), how it ended, the Logger's status and whether the
\* Logger was called.
Call(op, ref, obj, arg, ret, out, st, logged) ==
    [op |-> op, ref |-> ref, obj |-> obj, arg |-> arg, ret |-> ret,
     out |-> out, st |-> st, logged |-> logged]

NoCall == Call("none", NULL, NULL, NullText, NullText, "returned", 0, FALSE)

Min(a, b) == IF a < b THEN a ELSE b

\* An exception leaves the call: a caller that catches it goes on, an
\* uncaught one ends the process (std::terminate).
Thrown(caught) == IF caught THEN "running" ELSE "terminated"

\* The callers make at most MaxCalls calls.
Counted == calls < MaxCalls /\ calls' = calls + 1

\* ---------------------------------------------------------- greeter.c

\* "%s, %s!"
Format(g, n) == g \o <<",", " ">> \o n \o <<"!">>

\* A faulty variant: an absent name is taken as the empty name.
NameOrWorld_NoDefault(n) == IF n = NullText THEN <<>> ELSE n
\* name ?: "World"
NameOrWorld(n) == IF n = NullText THEN World ELSE n

\* A faulty variant: size chars are written, leaving no room for the terminator.
Snprintf_FullSize(size, s) == SubSeq(s, 1, Min(Len(s), size))
\* snprintf(buf, size, ...): at most size - 1 chars and the terminator.
Snprintf(size, s) == SubSeq(s, 1, Min(Len(s), size - 1))

\* A faulty variant: the empty text is rejected too.
CreateFails_OnEmpty(g) == g = NullText \/ g = <<>>
\* if( ! greeting) { return NULL; }
CreateFails(g) == g = NullText

\* A faulty variant: the null check is missing.
SelfAbsent_Unchecked(self) == FALSE
\* if( ! self) { return NULL; }
SelfAbsent(self) == self = NULL

\* A faulty variant: the greeting prefix is logged instead of the buffer.
LoggedMessage_Greeting(o, buf) == greeting[o]
\* loggerWriteLog(self->buffer): the message passed
LoggedMessage(o, buf) == buf

\* A faulty variant: a failure status of the Logger makes Greet return NULL.
GreetResult_ChecksStatus(self, st) == IF st < 0 THEN NULL ELSE self
\* return self->buffer; (the Logger's status st is dropped): the pointer
\* returned, as the Greeter whose buffer it is a view of
GreetResult(self, st) == self

\* A faulty variant: the assertion is compiled out.
AssertSelf_Disabled(self) == TRUE
\* assert(self);
AssertSelf(self) == self # NULL

\* A faulty variant: the caller's handle is left as it was.
HandleAfterDestroy_Kept(o) == o
\* *self = NULL;
HandleAfterDestroy(o) == NULL

\* --------------------------------------------------------- single.hh

\* A faulty variant: a second instance is accepted.
CtorRejects_Never(inst) == FALSE
\* if(instance != nullptr) { throw ... }
CtorRejects(inst) == inst # NULL

\* if(instance == nullptr) { throw ... }
GetInstanceThrows(inst) == inst = NULL

Init ==
    /\ pc = "running"
    /\ refs = [r \in Refs |-> NULL]
    /\ heap = [o \in Objs |-> "unalloc"]
    /\ greeting = [o \in Objs |-> NullText]
    /\ buffer = [o \in Objs |-> NullText]
    /\ released = [o \in Objs |-> [greeting |-> 0, self |-> 0]]
    /\ instance = NULL
    /\ liveLoggers = {}
    /\ log = <<>>
    /\ last = NoCall
    /\ given = [o \in Objs |-> NullText]
    /\ rets = <<>>
    /\ lastOk = [o \in Objs |-> NullText]
    /\ views = [o \in Objs |-> {}]
    /\ sawFail = FALSE
    /\ loggerGone = FALSE
    /\ retired = [r \in Refs |-> FALSE]
    /\ calls = 0

\* g = greeterCreate(text), g the caller's variable r
greeterCreate(r, text) ==
    /\ pc = "running"
    /\ Counted
    /\ IF CreateFails(text)
       THEN /\ refs' = [refs EXCEPT ![r] = NULL]
            /\ last' = Call("create", r, NULL, text, NullText, "returned", 0, FALSE)
            /\ UNCHANGED <<heap, greeting, buffer, given>>
       ELSE /\ \E o \in Objs :
                /\ heap[o] = "unalloc"
                /\ \A p \in Objs : p < o => heap[p] # "unalloc"
                /\ heap' = [heap EXCEPT ![o] = "live"]
                /\ greeting' = [greeting EXCEPT ![o] = text]
                /\ buffer' = [buffer EXCEPT ![o] = Indeterminate]
                /\ given' = [given EXCEPT ![o] = text]
                /\ refs' = [refs EXCEPT ![r] = o]
                /\ last' = Call("create", r, o, text, NullText, "returned", 0, FALSE)
    /\ retired' = [retired EXCEPT ![r] = FALSE]
    /\ UNCHANGED <<pc, released, instance, liveLoggers, log, rets, lastOk,
                   views, sawFail, loggerGone>>

\* greeterGreet(g, name), g the caller's variable r.  st is the status the
\* Logger returns if it is called; caught, whether the caller catches what
\* loggerWriteLog throws.
greeterGreet(r, name, st, caught) ==
    /\ pc = "running"
    /\ Counted
    /\ LET self == refs[r] IN
       IF SelfAbsent(self)
       THEN /\ last' = Call("greet", r, self, name, NullText, "returned", 0, FALSE)
            /\ UNCHANGED <<pc, buffer, log, rets, lastOk, views, sawFail>>
       ELSE IF self = NULL \/ heap[self] # "live"
       THEN \* self->greeting through a null or dangling pointer
            /\ pc' = "segv"
            /\ last' = Call("greet", r, self, name, NullText, "fault", 0, FALSE)
            /\ UNCHANGED <<buffer, log, rets, lastOk, views, sawFail>>
       ELSE LET buf == Snprintf(BufSize, Format(greeting[self], NameOrWorld(name))) IN
            /\ buffer' = [buffer EXCEPT ![self] = buf]
            /\ IF GetInstanceThrows(instance)
               THEN /\ pc' = Thrown(caught)
                    /\ last' = Call("greet", r, self, name, NullText, "threw", 0, FALSE)
                    /\ UNCHANGED <<log, rets, lastOk, views, sawFail>>
               ELSE /\ log' = Append(log, LoggedMessage(self, buf))
                    /\ sawFail' = (sawFail \/ st < 0)
                    /\ LET ptr == GreetResult(self, st)
                           txt == IF ptr = NULL THEN NullText ELSE buffer'[ptr]
                       IN  /\ last' = Call("greet", r, self, name, txt, "returned", st, TRUE)
                           /\ IF ptr = NULL
                              THEN UNCHANGED <<rets, lastOk, views>>
                              ELSE /\ rets' = Append(rets, txt)
                                   /\ lastOk' = [lastOk EXCEPT ![self] = txt]
                                   /\ views' = [views EXCEPT ![self] = @ \cup {ptr}]
                    /\ UNCHANGED pc
    /\ UNCHANGED <<refs, heap, greeting, released, instance, liveLoggers,
                   given, loggerGone, retired>>

\* greeterDestroy(self): s is the address of the caller's variable, or NULL
greeterDestroy(s) ==
    /\ pc = "running"
    /\ Counted
    /\ IF ~AssertSelf(s)
       THEN /\ pc' = "aborted"
            /\ last' = Call("destroy", s, NULL, NullText, NullText, "aborted", 0, FALSE)
            /\ UNCHANGED <<refs, heap, released, retired, greeting, buffer, given,
                           lastOk, views>>
       ELSE IF s = NULL
       THEN \* *self through a null pointer
            /\ pc' = "segv"
            /\ last' = Call("destroy", s, NULL, NullText, NullText, "fault", 0, FALSE)
            /\ UNCHANGED <<refs, heap, released, retired, greeting, buffer, given,
                           lastOk, views>>
       ELSE IF refs[s] = NULL
       THEN /\ last' = Call("destroy", s, NULL, NullText, NullText, "returned", 0, FALSE)
            /\ UNCHANGED <<pc, refs, heap, released, retired, greeting, buffer,
                           given, lastOk, views>>
       ELSE LET o == refs[s] IN
            /\ released' = [released EXCEPT ![o] =
                               [greeting |-> @.greeting + 1, self |-> @.self + 1]]
            /\ heap' = [heap EXCEPT ![o] = "freed"]
            \* what freed storage holds can no longer be read
            /\ greeting' = [greeting EXCEPT ![o] = NullText]
            /\ buffer' = [buffer EXCEPT ![o] = NullText]
            /\ given' = [given EXCEPT ![o] = NullText]
            /\ lastOk' = [lastOk EXCEPT ![o] = NullText]
            /\ views' = [views EXCEPT ![o] = {}]
            \* free() of storage that is already free corrupts the heap
            /\ pc' = IF heap[o] = "live" THEN "running" ELSE "segv"
            /\ refs' = [refs EXCEPT ![s] = HandleAfterDestroy(o)]
            /\ retired' = [retired EXCEPT ![s] = TRUE]
            /\ last' = Call("destroy", s, o, NullText, NullText,
                            IF heap[o] = "live" THEN "returned" ELSE "fault", 0, FALSE)
    /\ UNCHANGED <<instance, liveLoggers, log, rets, sawFail, loggerGone>>

\* LoggerMock logger; (Single<LoggerMock>::Single)
LoggerConstruct(l, caught) ==
    /\ pc = "running"
    /\ Counted
    /\ l \notin liveLoggers
    /\ IF CtorRejects(instance)
       THEN /\ pc' = Thrown(caught)
            /\ last' = Call("ctor", l, instance, NullText, NullText, "threw", 0, FALSE)
            /\ UNCHANGED <<instance, liveLoggers>>
       ELSE /\ instance' = l
            /\ liveLoggers' = liveLoggers \cup {l}
            /\ last' = Call("ctor", l, instance, NullText, NullText, "returned", 0, FALSE)
            /\ UNCHANGED pc
    /\ UNCHANGED <<refs, heap, greeting, buffer, released, log, given, rets,
                   lastOk, views, sawFail, loggerGone, retired>>

\* Single<LoggerMock>::~Single
LoggerDestruct(l) ==
    /\ pc = "running"
    /\ Counted
    /\ l \in liveLoggers
    /\ instance' = NULL
    /\ liveLoggers' = liveLoggers \ {l}
    /\ loggerGone' = TRUE
    /\ last' = Call("dtor", l, instance, NullText, NullText, "returned", 0, FALSE)
    /\ UNCHANGED <<pc, refs, heap, greeting, buffer, released, log, given, rets,
                   lastOk, views, sawFail, retired>>

\* Single<LoggerMock>::GetInstance()
GetInstance(caught) ==
    /\ pc = "running"
    /\ Counted
    /\ IF GetInstanceThrows(instance)
       THEN /\ pc' = Thrown(caught)
            /\ last' = Call("get", NULL, NULL, NullText, NullText, "threw", 0, FALSE)
       ELSE /\ last' = Call("get", NULL, instance, NullText, NullText, "returned", 0, FALSE)
            /\ UNCHANGED pc
    /\ UNCHANGED <<refs, heap, greeting, buffer, released, instance, liveLoggers,
                   log, given, rets, lastOk, views, sawFail, loggerGone, retired>>

Next ==
    \/ \E r \in Refs, text \in Greetings \cup {NullText} : greeterCreate(r, text)
    \/ \E r \in Refs, name \in Names \cup {NullText}, st \in Statuses,
          caught \in BOOLEAN : greeterGreet(r, name, st, caught)
    \/ \E s \in Refs \cup {NULL} : greeterDestroy(s)
    \/ \E l \in LoggerIds, caught \in BOOLEAN : LoggerConstruct(l, caught)
    \/ \E l \in LoggerIds : LoggerDestruct(l)
    \/ \E caught \in BOOLEAN : GetInstance(caught)

Spec == Init /\ [][Next]_vars
\* ------------------------------------------------------------- claims

\* g + ", " + (n, or "World" when n is absent) + "!"
FullText(g, n) ==
    g \o <<",", " ">> \o (IF n = NullText THEN World ELSE n) \o <<"!">>

\* The chars the buffer holds beside the terminator.
Capacity == BufSize - 1

FirstChars(s, k) == IF Len(s) <= k THEN s ELSE [i \in 1..k |-> s[i]]

\* The last call was a greeterGreet that returned a text.
GreetReturned ==
    /\ last.op = "greet"
    /\ last.out = "returned"
    /\ last.ret # NullText

\* The full formatted text of the last greeterGreet, from the prefix given
\* at greeterCreate and the name of the call.
LastFull == FullText(given[last.obj], last.arg)

\* C1 as stated: every text greeterGreet returns is exactly
\* g + ", " + (n or "World") + "!", for every greeting g given at Create and
\* every name n.
C1_GreetReturnsFullText ==
    GreetReturned => last.ret = LastFull

\* C1, amended: every text greeterGreet returns is the first 99 chars of
\* g + ", " + (n or "World") + "!", so exactly that text whenever it has at
\* most 99 chars; it depends only on the prefix given at Create and on the
\* name of the current call.
C1_GreetReturnsFormatted ==
    GreetReturned =>
        /\ last.ret = FirstChars(LastFull, Capacity)
        /\ Len(LastFull) <= Capacity => last.ret = LastFull

\* A second Greet on the one handle, with the name absent, after a Greet
\* with another name.
C1_Witness ==
    /\ GreetReturned
    /\ last.arg = NullText
    /\ heap[2] = "unalloc"
    /\ Len(rets) = 2
    /\ rets[1] # rets[2]
    /\ rets[2] = given[last.obj] \o <<",", " ", "W", "o", "r", "l", "d", "!">>

\* C2: the messages the Logger received are, in order, the texts the
\* successful greeterGreet calls returned: one message per successful Greet,
\* none from Create, Destroy or a Greet on an absent handle.
C2_LogIsReturnedTexts ==
    log = rets

\* Two Greets logged two different texts, and a Destroy followed.
C2_Witness ==
    /\ Len(log) = 2
    /\ log[1] # log[2]
    /\ last.op = "destroy"
    /\ last.obj # NULL

\* C3: whatever status the Logger returns, a greeterGreet on a live handle
\* with a Logger installed calls the Logger, returns the formatted text and
\* leaves the process running, also after earlier failure statuses.
C3_StatusIgnored ==
    (last.op = "greet" /\ last.obj # NULL /\ instance # NULL) =>
        /\ last.logged
        /\ last.st \in Statuses
        /\ last.out = "returned"
        /\ pc = "running"
        /\ last.ret = FirstChars(LastFull, Capacity)
        /\ log # <<>>
        /\ log[Len(log)] = last.ret

\* The Logger failed on the first Greet; the second Greet on the same handle
\* returned its text and was logged.
C3_Witness ==
    /\ GreetReturned
    /\ sawFail
    /\ last.st >= 0
    /\ Len(log) = 2
    /\ heap[2] = "unalloc"

\* C4: greeterDestroy through a valid reference leaves the handle absent,
\* a handle set absent by Destroy stays absent under further Destroy calls,
\* and no storage is released twice.
C4_DestroyIdempotent ==
    /\ \A o \in Objs :
        /\ released[o].greeting <= 1
        /\ released[o].self <= 1
        /\ (heap[o] = "freed") = (released[o].self = 1)
        /\ (heap[o] = "freed") = (released[o].greeting = 1)
    /\ \A r \in Refs : retired[r] => refs[r] = NULL
    /\ (last.op = "destroy" /\ last.ref # NULL) =>
        /\ refs[last.ref] = NULL
        /\ last.out = "returned"
        /\ pc = "running"

\* A Destroy on a reference whose handle an earlier Destroy set absent.
C4_Witness ==
    /\ last.op = "destroy"
    /\ last.ref # NULL
    /\ last.obj = NULL
    /\ retired[last.ref]
    /\ \E o \in Objs : released[o].self = 1

\* C5: greeterCreate returns absent exactly for the absent text, and then
\* allocates nothing; for every other text, the empty one included, it
\* returns a fresh live Greeter holding a copy of the text.
C5_CreateAbsentIffNoText ==
    [][(last'.op = "create" /\ calls' = calls + 1) =>
        LET h == refs'[last'.ref] IN
        /\ (h = NULL) = (last'.arg = NullText)
        /\ h = NULL => heap' = heap
        /\ h # NULL =>
            /\ h \in Objs
            /\ heap[h] = "unalloc"
            /\ heap' = [heap EXCEPT ![h] = "live"]
            /\ greeting'[h] = last'.arg
        /\ pc' = "running"]_vars

\* A Greeter created with the empty text was greeted and then destroyed.
C5_Witness ==
    /\ last.op = "destroy"
    /\ last.obj # NULL
    /\ last.out = "returned"
    /\ rets = << <<",", " ", "W", "o", "r", "l", "d", "!">> >>
    /\ heap[2] = "unalloc"

\* C6: greeterGreet on an absent handle returns absent for every name and
\* does not fault; a handle greeterDestroy retired is absent, and no handle a
\* caller holds is dangling.
C6_GreetAbsentHandle ==
    /\ pc # "segv"
    /\ \A r \in Refs :
        /\ retired[r] => refs[r] = NULL
        /\ refs[r] # NULL => heap[refs[r]] = "live"
    /\ (last.op = "greet" /\ last.obj = NULL) =>
        /\ last.ret = NullText
        /\ last.out = "returned"
        /\ ~last.logged
        /\ pc = "running"

\* A Greet with a name on a handle that was live and has been destroyed.
C6_Witness ==
    /\ last.op = "greet"
    /\ last.obj = NULL
    /\ retired[last.ref]
    /\ last.arg \notin {NullText, <<>>}
    /\ last.ret = NullText

\* C7: greeterDestroy with a null reference fails its assertion: the process
\* aborts and nothing is released or changed; with a valid reference to an
\* absent handle it returns and changes nothing.
C7_NullRefAborts ==
    [][(last'.op = "destroy" /\ calls' = calls + 1) =>
        IF last'.ref = NULL
        THEN /\ pc' = "aborted"
             /\ last'.out = "aborted"
             /\ UNCHANGED <<refs, heap, released, greeting, buffer, log>>
        ELSE refs[last'.ref] = NULL =>
             /\ pc' = "running"
             /\ last'.out = "returned"
             /\ UNCHANGED <<refs, heap, released, greeting, buffer, log>>]_vars

\* The process aborted in a Destroy with a null reference while a Greeter
\* was live.
C7_Witness ==
    /\ pc = "aborted"
    /\ last.op = "destroy"
    /\ last.ref = NULL
    /\ \E r \in Refs : refs[r] # NULL /\ heap[refs[r]] = "live"

\* C8: at most one Logger instance is live, and it is the installed one; a
\* construction while one is installed throws and leaves that one installed;
\* GetInstance throws exactly when none is installed and else returns the
\* installed one; with none installed a construction installs the new one.
C8_SingleInstance ==
    /\ Cardinality(liveLoggers) <= 1
    /\ liveLoggers = (IF instance = NULL THEN {} ELSE {instance})
    /\ last.op = "ctor" =>
        /\ (last.out = "threw") = (last.obj # NULL)
        /\ last.out = "threw" => (instance = last.obj /\ last.ref # instance)
        /\ last.out = "returned" => instance = last.ref
    /\ last.op = "dtor" => instance = NULL
    /\ last.op = "get" =>
        /\ (last.out = "threw") = (liveLoggers = {})
        /\ last.out = "returned" => (last.obj = instance /\ instance # NULL)

\* After an instance was destroyed a new one was installed, and a further
\* construction was rejected.
C8_Witness ==
    /\ loggerGone
    /\ last.op = "ctor"
    /\ last.out = "threw"
    /\ instance # NULL
    /\ pc = "running"

\* C9: a text greeterGreet returns has at most 99 chars; when the full
\* formatted text is longer, the text returned and the message logged are its
\* first 99 chars; when it fits, the text returned is the full text.
C9_TruncatesToCapacity ==
    /\ \A o \in Objs : heap[o] = "live" /\ lastOk[o] # NullText
                           => Len(buffer[o]) <= Capacity
    /\ GreetReturned =>
        /\ Len(last.ret) <= Capacity
        /\ Len(LastFull) > Capacity =>
            /\ last.ret = [i \in 1..Capacity |-> LastFull[i]]
            /\ log[Len(log)] = last.ret
        /\ Len(LastFull) <= Capacity => last.ret = LastFull

\* A Greet whose full text is one char longer than the buffer holds.
C9_Witness ==
    /\ GreetReturned
    /\ Len(LastFull) = Capacity + 1
    /\ Len(last.ret) = Capacity
    /\ last.ret[Capacity] = "n"

\* C10: while the process runs, the buffer of a live Greeter that has been
\* greeted holds what its most recent successful Greet returned, every view
\* returned for it is a view of that buffer, and its greeting prefix is the
\* one given at Create, whatever was called on other handles.
C10_BufferHoldsLastSuccess ==
    \A o \in Objs :
        (pc = "running" /\ heap[o] = "live") =>
            /\ greeting[o] = given[o]
            /\ views[o] \subseteq {o}
            /\ lastOk[o] # NullText => buffer[o] = lastOk[o]

=============================================================================
